---- MODULE Spec2Model ----
(***************************************************************************)
(* Rate limiting of the streaming-platform backend: the Redis token bucket *)
(* (LUA_TOKEN_BUCKET, RedisTokenBucketRateLimiter.is_allowed), the global   *)
(* RateLimitMiddleware and the per-endpoint redis_rate_limit decorator; and *)
(* the account endpoints register_user, activate_account and login.         *)
(*                                                                         *)
(* Numbers.  Time is counted in ticks, TicksPerSec ticks to the second, so  *)
(* that int(...) of a unix time (truncation to whole seconds) is visible.   *)
(* Tokens are counted in units, Scale units to the token, and a refill rate *)
(* is a whole number of units per tick, so that the script's arithmetic     *)
(* (elapsed * refill_rate, min, subtraction) is exact on these values.      *)
(* reset_ts = now + needed / refill_rate is a fraction of a tick: it is     *)
(* carried as its numerator over the denominator refill_rate.  Binary       *)
(* floating point rounding and the 14 significant digits of Lua's tostring  *)
(* are below the resolution of a tick and are not modelled.                 *)
(***************************************************************************)
EXTENDS Integers, Sequences, FiniteSets, TLC

VARIABLES
    clock,      \* wall clock, in ticks: what time.time() returns
    ENVIRONMENT,\* settings.ENVIRONMENT
    started,    \* lifespan has run: app.state.redis and app.state.rate_limiter are set
    redis,      \* the store: key -> hash {tokens, last_refill} with its expiry
    req,        \* per request: position in the middleware / decorator / handler and its data
    epoch,      \* history, per key: the script runs since the key was last absent
    users,      \* the users table of the database
    token_blocklist, \* the Redis client token_blocklist: jti -> time its key expires
    streams,    \* the streams table of the database
    ledger      \* history, per key: what the script runs on it returned, over the whole run

vars ==
    <<clock, ENVIRONMENT, started, redis, req, epoch, users, token_blocklist, streams,
      ledger>>

----------------------------------------------------------------------------
(* Bounds of the model *)

NCallers == 2       \* concurrent callers of is_allowed (BucketSpec)
MaxCalls == 3       \* script runs counted in the history of a key
MaxClock == 3       \* last tick of the wall clock
TicksPerSec == 2    \* resolution of the clock
Scale == 2          \* resolution of the token count
GlobalCapacity == 1 \* capacity of the global bucket (60 in main.py, scaled down)
EndpointCapacity == 1 \* capacity of the endpoint buckets (5, 10 in auth.py, scaled down)

\* Spec serves the HTTP requests of one client one after the other; the
\* concurrent use of a bucket is the subject of BucketSpec
Requests == {0}
Callers == 1..NCallers

Min(a, b) == IF a <= b THEN a ELSE b
Max(a, b) == IF a >= b THEN a ELSE b

\* math.ceil(a / b) for a >= 0, b > 0
Ceil(a, b) == (a + b - 1) \div b

----------------------------------------------------------------------------
(* Requests as the limiter sees them *)

Bearers == {"none", "tokA"}
Clients == {"ip1"}
Endpoints == {"login", "logout", "activate"}

\* the requests of the model: one client address, with or without a bearer token
RequestKinds ==
    {[bearer |-> "none", client |-> "ip1", endpoint |-> "login"],
     [bearer |-> "tokA", client |-> "ip1", endpoint |-> "login"],
     [bearer |-> "none", client |-> "ip1", endpoint |-> "logout"],
     [bearer |-> "tokA", client |-> "ip1", endpoint |-> "logout"],
     [bearer |-> "none", client |-> "ip1", endpoint |-> "activate"]}

\* app/utils/helper.py get_client_ip (no X-Forwarded-For header in the model);
\* client "none": the request has no client address
get_client_ip(request) ==
    IF request.client # "none" THEN request.client ELSE "unknown"

\* app/utils/helper.py get_user_identifier
get_user_identifier(request) ==
    IF request.bearer # "none" THEN request.bearer ELSE get_client_ip(request)

\* the get_identifier argument of each @redis_rate_limit: login has none,
\* logout passes get_user_identifier
HasGetIdentifier(endpoint) == endpoint = "logout"

\* redis_rate_limit.wrapper, "Get identifier"
GateIdentifier(endpoint, request) ==
    IF HasGetIdentifier(endpoint)
    THEN get_user_identifier(request)
    ELSE IF request.client # "none" THEN request.client ELSE "unknown"

----------------------------------------------------------------------------
(* Limiter configurations: capacity in tokens, refill_rate in units per tick *)

GlobalLimiter == [capacity |-> GlobalCapacity, refill_rate |-> 2, prefix |-> "ratelimit:"]

\* the prefix argument of each @redis_rate_limit
DecoratorPrefix(endpoint) ==
    IF endpoint = "login" THEN "auth_login:"
    ELSE IF endpoint = "logout" THEN "auth_logout:"
    ELSE "auth_activate:"

\* func.__name__ of the decorated function
FuncName(endpoint) ==
    IF endpoint = "activate" THEN "activate_account" ELSE endpoint

\* The function the router serves.  login and logout: @auth_router.post is
\* applied to the wrapper redis_rate_limit returned.  activate_account:
\* @auth_router.get is applied first, to the function itself, and
\* @redis_rate_limit wraps what the router returned (the same function); the
\* route keeps the function without the wrapper.
RouteIsWrapper(endpoint) == endpoint # "activate"

\* prefix=f"{prefix}{func.__name__}:"
EndpointPrefix(endpoint) == DecoratorPrefix(endpoint) \o FuncName(endpoint) \o ":"

EndpointLimiter(endpoint) ==
    [capacity |-> EndpointCapacity,
     refill_rate |-> IF endpoint = "login" THEN 1 ELSE 3,
     prefix |-> EndpointPrefix(endpoint)]

\* a key made of the identifier alone
key_of_identifier_only(limiter, identifier) == identifier

\* RedisTokenBucketRateLimiter._key: f"{self.prefix}{identifier}"
key_of(limiter, identifier) == limiter.prefix \o identifier

\* the limiters of the application: the global one, and the one each wrapper
\* that serves a route builds
Limiters ==
    {GlobalLimiter} \cup {EndpointLimiter(e) : e \in {x \in Endpoints : RouteIsWrapper(x)}}

Identifiers == (Bearers \ {"none"}) \cup Clients \cup {"unknown"}
Keys == {key_of(l, i) : l \in Limiters, i \in Identifiers}

\* the limiter that writes a key
LimiterOf(key) ==
    CHOOSE l \in Limiters : \E i \in Identifiers : key_of(l, i) = key

\* the capacity every limiter that writes a key is configured with
CapacityOf(key) == LimiterOf(key).capacity

\* History of a key over the whole run, expiries of the key included: runs,
\* the number of script runs (up to MaxCalls); now, at and reset_num, the now,
\* the server time and the reset_ts (as its numerator) of the last run;
\* ordered, the runs carried
\* nows that never decreased; admitted[t], the number of runs with now = t
\* that were allowed (up to MaxCalls).
NoLedger ==
    [runs |-> 0, now |-> 0, at |-> 0, reset_num |-> 0, ordered |-> TRUE,
     admitted |-> [t \in 0..MaxClock |-> 0]]

----------------------------------------------------------------------------
(* The store *)

NoHash == [present |-> FALSE, tokens |-> 0, last_refill |-> 0, expire_at |-> 0]

\* HMGET key tokens last_refill, at server time t: an expired key is absent
HMGET(store, key, t) ==
    IF store[key].present /\ t < store[key].expire_at THEN store[key] ELSE NoHash

\* HMSET of the tokens field alone: last_refill and the expiry keep what the key had
HMSET_tokens_only(store, key, tokens, last_refill, expire_seconds, t) ==
    [store EXCEPT ![key].present = TRUE, ![key].tokens = tokens]

\* HMSET followed by an EXPIRE that leaves the expiry of a key that has one
HMSET_EXPIRE_keep_ttl(store, key, tokens, last_refill, expire_seconds, t) ==
    [store EXCEPT ![key] = [present |-> TRUE, tokens |-> tokens,
                            last_refill |-> last_refill,
                            expire_at |-> IF store[key].present /\ t < store[key].expire_at
                                          THEN store[key].expire_at
                                          ELSE t + expire_seconds * TicksPerSec]]

\* HMSET key tokens .. last_refill .. followed by EXPIRE key expire_seconds
HMSET_EXPIRE(store, key, tokens, last_refill, expire_seconds, t) ==
    [store EXCEPT ![key] = [present |-> TRUE, tokens |-> tokens,
                            last_refill |-> last_refill,
                            expire_at |-> t + expire_seconds * TicksPerSec]]

\* math.ceil((capacity / refill_rate) * 2), refill_rate in tokens per second
expire_seconds(capacity, refill_rate) ==
    Ceil(2 * capacity * Scale, refill_rate * TicksPerSec)

\* LUA_TOKEN_BUCKET without "tokens = tokens - consume"
LUA_TOKEN_BUCKET_no_decrement(data, capacity, refill_rate, now, consume) ==
    LET tokens0 == IF data.present THEN data.tokens ELSE capacity * Scale
        last0 == IF data.present THEN data.last_refill ELSE now
        elapsed == now - last0
        tokens1 == IF elapsed > 0
                   THEN Min(capacity * Scale, tokens0 + elapsed * refill_rate)
                   ELSE tokens0
        last1 == IF elapsed > 0 THEN now ELSE last0
        allowed == tokens1 >= consume * Scale
        needed == Scale - tokens1
    IN  [allowed |-> allowed, tokens |-> tokens1, last_refill |-> last1,
         reset_num |-> IF tokens1 >= Scale THEN now * refill_rate
                       ELSE now * refill_rate + needed]

\* LUA_TOKEN_BUCKET without the guard "if elapsed > 0" around the refill
LUA_TOKEN_BUCKET_no_guard(data, capacity, refill_rate, now, consume) ==
    LET tokens0 == IF data.present THEN data.tokens ELSE capacity * Scale
        last0 == IF data.present THEN data.last_refill ELSE now
        elapsed == now - last0
        tokens1 == Min(capacity * Scale, tokens0 + elapsed * refill_rate)
        allowed == tokens1 >= consume * Scale
        tokens2 == IF allowed THEN tokens1 - consume * Scale ELSE tokens1
        needed == Scale - tokens2
    IN  [allowed |-> allowed, tokens |-> tokens2, last_refill |-> now,
         reset_num |-> IF tokens2 >= Scale THEN now * refill_rate
                       ELSE now * refill_rate + needed]

\* LUA_TOKEN_BUCKET taking an absent key for an empty bucket
LUA_TOKEN_BUCKET_absent_empty(data, capacity, refill_rate, now, consume) ==
    LET tokens0 == IF data.present THEN data.tokens ELSE 0
        last0 == IF data.present THEN data.last_refill ELSE now
        elapsed == now - last0
        tokens1 == IF elapsed > 0
                   THEN Min(capacity * Scale, tokens0 + elapsed * refill_rate)
                   ELSE tokens0
        last1 == IF elapsed > 0 THEN now ELSE last0
        allowed == tokens1 >= consume * Scale
        tokens2 == IF allowed THEN tokens1 - consume * Scale ELSE tokens1
        needed == Scale - tokens2
    IN  [allowed |-> allowed, tokens |-> tokens2, last_refill |-> last1,
         reset_num |-> IF tokens2 >= Scale THEN now * refill_rate
                       ELSE now * refill_rate + needed]

\* LUA_TOKEN_BUCKET without the refill
LUA_TOKEN_BUCKET_no_refill(data, capacity, refill_rate, now, consume) ==
    LET tokens0 == IF data.present THEN data.tokens ELSE capacity * Scale
        last0 == IF data.present THEN data.last_refill ELSE now
        elapsed == now - last0
        last1 == IF elapsed > 0 THEN now ELSE last0
        allowed == tokens0 >= consume * Scale
        tokens2 == IF allowed THEN tokens0 - consume * Scale ELSE tokens0
        needed == Scale - tokens2
    IN  [allowed |-> allowed, tokens |-> tokens2, last_refill |-> last1,
         reset_num |-> IF tokens2 >= Scale THEN now * refill_rate
                       ELSE now * refill_rate + needed]

\* LUA_TOKEN_BUCKET taking the tokens of a rejected consume too, down to 0
LUA_TOKEN_BUCKET_reject_decrements(data, capacity, refill_rate, now, consume) ==
    LET tokens0 == IF data.present THEN data.tokens ELSE capacity * Scale
        last0 == IF data.present THEN data.last_refill ELSE now
        elapsed == now - last0
        tokens1 == IF elapsed > 0
                   THEN Min(capacity * Scale, tokens0 + elapsed * refill_rate)
                   ELSE tokens0
        last1 == IF elapsed > 0 THEN now ELSE last0
        allowed == tokens1 >= consume * Scale
        tokens2 == Max(0, tokens1 - consume * Scale)
        needed == Scale - tokens2
    IN  [allowed |-> allowed, tokens |-> tokens2, last_refill |-> last1,
         reset_num |-> IF tokens2 >= Scale THEN now * refill_rate
                       ELSE now * refill_rate + needed]

\* LUA_TOKEN_BUCKET stamping last_refill = now whatever elapsed is
LUA_TOKEN_BUCKET_stamp_always(data, capacity, refill_rate, now, consume) ==
    LET tokens0 == IF data.present THEN data.tokens ELSE capacity * Scale
        last0 == IF data.present THEN data.last_refill ELSE now
        elapsed == now - last0
        tokens1 == IF elapsed > 0
                   THEN Min(capacity * Scale, tokens0 + elapsed * refill_rate)
                   ELSE tokens0
        allowed == tokens1 >= consume * Scale
        tokens2 == IF allowed THEN tokens1 - consume * Scale ELSE tokens1
        needed == Scale - tokens2
    IN  [allowed |-> allowed, tokens |-> tokens2, last_refill |-> now,
         reset_num |-> IF tokens2 >= Scale THEN now * refill_rate
                       ELSE now * refill_rate + needed]

\* the script allowing a consume only if tokens > consume
TokenBucketScript_strict(data, capacity, refill_rate, now, consume, scale) ==
    LET tokens0 == IF data.present THEN data.tokens ELSE capacity * scale
        last0 == IF data.present THEN data.last_refill ELSE now
        elapsed == now - last0
        tokens1 == IF elapsed > 0
                   THEN Min(capacity * scale, tokens0 + elapsed * refill_rate)
                   ELSE tokens0
        last1 == IF elapsed > 0 THEN now ELSE last0
        allowed == tokens1 > consume * scale
        tokens2 == IF allowed THEN tokens1 - consume * scale ELSE tokens1
        needed == scale - tokens2
    IN  [allowed |-> allowed, tokens |-> tokens2, last_refill |-> last1,
         reset_num |-> IF tokens2 >= scale THEN now * refill_rate
                       ELSE now * refill_rate + needed]

\* The script's computation on the hash it read, at a given resolution of the
\* token count: scale units to the token.  tokens in units, now in ticks,
\* refill_rate in units per tick, reset_num / refill_rate = reset_ts in ticks.
TokenBucketScript(data, capacity, refill_rate, now, consume, scale) ==
    LET tokens0 == IF data.present THEN data.tokens ELSE capacity * scale
        last0 == IF data.present THEN data.last_refill ELSE now
        elapsed == now - last0
        tokens1 == IF elapsed > 0
                   THEN Min(capacity * scale, tokens0 + elapsed * refill_rate)
                   ELSE tokens0
        last1 == IF elapsed > 0 THEN now ELSE last0
        allowed == tokens1 >= consume * scale
        tokens2 == IF allowed THEN tokens1 - consume * scale ELSE tokens1
        needed == scale - tokens2
        reset_num == IF tokens2 >= scale
                     THEN now * refill_rate
                     ELSE now * refill_rate + needed
    IN  [allowed |-> allowed, tokens |-> tokens2, last_refill |-> last1,
         reset_num |-> reset_num]

\* The script at the resolution of the model.
LUA_TOKEN_BUCKET(data, capacity, refill_rate, now, consume) ==
    TokenBucketScript(data, capacity, refill_rate, now, consume, Scale)

----------------------------------------------------------------------------
(* RedisTokenBucketRateLimiter.is_allowed, after the script call *)

NoInfo == [limit |-> 0, remaining |-> 0, reset |-> 0]

\* int(x / y) for x >= 0: truncation of a non-negative float
IntOf(x, y) == x \div y

\* info with remaining rounded up to the next whole token
is_allowed_info_ceil(limiter, res) ==
    [limit |-> limiter.capacity,
     remaining |-> IF res.tokens >= 0 THEN Ceil(res.tokens, Scale) ELSE 0,
     reset |-> IntOf(res.reset_num, limiter.refill_rate * TicksPerSec)]

\* info of lines 131-135: remaining = int(tokens_left), reset = int(reset_ts)
is_allowed_info(limiter, res) ==
    [limit |-> limiter.capacity,
     remaining |-> IF res.tokens >= 0 THEN IntOf(res.tokens, Scale) ELSE 0,
     reset |-> IntOf(res.reset_num, limiter.refill_rate * TicksPerSec)]

\* the except branch failing closed, as its log message has it ("allow=False")
is_allowed_except_closed(limiter, now) ==
    [allowed |-> FALSE,
     info |-> [limit |-> limiter.capacity,
               remaining |-> 0,
               reset |-> IntOf(now * limiter.refill_rate + limiter.capacity * Scale,
                               limiter.refill_rate * TicksPerSec)]]

\* the except branch with remaining = 0
is_allowed_except_empty(limiter, now) ==
    [allowed |-> TRUE,
     info |-> [limit |-> limiter.capacity,
               remaining |-> 0,
               reset |-> IntOf(now * limiter.refill_rate + limiter.capacity * Scale,
                               limiter.refill_rate * TicksPerSec)]]

\* the except branch, lines 113-124: (True, info)
is_allowed_except(limiter, now) ==
    [allowed |-> TRUE,
     info |-> [limit |-> limiter.capacity,
               remaining |-> limiter.capacity,
               reset |-> IntOf(now * limiter.refill_rate + limiter.capacity * Scale,
                               limiter.refill_rate * TicksPerSec)]]

\* int(time.time())
int_time(t) == IntOf(t, TicksPerSec)

----------------------------------------------------------------------------
(* Requests and callers *)

NoResp == [status |-> 0, gate_hdr |-> {}, mw_hdr |-> {}, retry_after |-> {}]

NoCheck == [how |-> "none", allowed |-> FALSE, info |-> NoInfo]

NoCall == [layer |-> "none", limiter |-> GlobalLimiter, identifier |-> "ip1", now |-> 0]

\* pc: where the request is.  call: the is_allowed call it waits in.  mw, gate:
\* what the middleware's and the decorator's check gave ("skipped", "bypass",
\* "allowed", "rejected", "failopen").  ret: what is_allowed returned to a direct
\* caller.  executed: how often the endpoint function ran.  resp: the response.
IdleReq ==
    [pc |-> "idle", bearer |-> "none", client |-> "ip1", endpoint |-> "login",
     call |-> NoCall, mw |-> NoCheck, gate |-> NoCheck, ret |-> NoCheck,
     executed |-> 0, outcome |-> "none", resp |-> NoResp]

\* is_allowed up to the script call (lines 98-99): the key's identifier, now = time.time()
is_allowed_call(q, layer, limiter, identifier, t) ==
    [q EXCEPT !.pc = "await",
              !.call = [layer |-> layer, limiter |-> limiter,
                        identifier |-> identifier, now |-> t]]

\* the request going on to the endpoint whatever is_allowed returned
AfterCheck_proceed(q, allowed, info, how) ==
    LET c == [how |-> how, allowed |-> allowed, info |-> info]
    IN  IF q.call.layer = "mw"
        THEN [q EXCEPT !.pc = "route", !.mw = c, !.call = NoCall]
        ELSE IF q.call.layer = "gate"
        THEN [q EXCEPT !.pc = "endpoint", !.gate = c, !.call = NoCall]
        ELSE [q EXCEPT !.pc = "returned", !.ret = c, !.call = NoCall]

\* the request going on to its route whatever the middleware's check returned
AfterCheck_global_ignored(q, allowed, info, how) ==
    LET c == [how |-> how, allowed |-> allowed, info |-> info]
    IN  IF q.call.layer = "mw"
        THEN [q EXCEPT !.pc = "route", !.mw = c, !.call = NoCall]
        ELSE IF q.call.layer = "gate"
        THEN [q EXCEPT !.pc = IF allowed THEN "endpoint" ELSE "gate_reject",
                       !.gate = c, !.call = NoCall]
        ELSE [q EXCEPT !.pc = "returned", !.ret = c, !.call = NoCall]

\* the request after is_allowed returned (allowed, info)
AfterCheck(q, allowed, info, how) ==
    LET c == [how |-> how, allowed |-> allowed, info |-> info]
    IN  IF q.call.layer = "mw"
        THEN [q EXCEPT !.pc = IF allowed THEN "route" ELSE "mw_reject",
                       !.mw = c, !.call = NoCall]
        ELSE IF q.call.layer = "gate"
        THEN [q EXCEPT !.pc = IF allowed THEN "endpoint" ELSE "gate_reject",
                       !.gate = c, !.call = NoCall]
        ELSE [q EXCEPT !.pc = "returned", !.ret = c, !.call = NoCall]

\* History of a key since it was last absent, or since the script found it
\* empty exactly capacity / refill_rate after its last_refill (refilled): the
\* number of script runs, how many were allowed, and whether all of them
\* carried the same now (now0).  The counts are dropped once two different
\* nows were seen or MaxCalls is passed.  back: the last script run carried a
\* now older than the last_refill it found.
NoEpoch ==
    [calls |-> 0, admits |-> 0, now0 |-> 0, same |-> FALSE, back |-> FALSE,
     refilled |-> FALSE]

\* the script, called with now, finds the bucket empty and stamped
\* capacity / refill_rate before now
RefilledFromEmpty(data, capacity, refill_rate, now) ==
    /\ data.present /\ data.tokens = 0
    /\ (now - data.last_refill) * refill_rate = capacity * Scale

EpochStep(e, data, now, allowed, refilled) ==
    LET a == IF allowed THEN 1 ELSE 0
    IN  IF ~data.present \/ refilled
        THEN [calls |-> 1, admits |-> a, now0 |-> now, same |-> TRUE, back |-> FALSE,
              refilled |-> refilled]
        ELSE IF e.same /\ now = e.now0 /\ e.calls < MaxCalls
        THEN [e EXCEPT !.calls = @ + 1, !.admits = @ + a, !.back = FALSE]
        ELSE [NoEpoch EXCEPT !.back = now < data.last_refill]

\* The keys in use are among K: a behaviour of the model follows the buckets of
\* one client on one endpoint (buckets of different keys do not interact)
OnlyKeys(K) ==
    /\ \A k \in Keys : redis[k].present => k \in K
    /\ \A p \in DOMAIN req :
          req[p].pc = "await" => key_of(req[p].call.limiter, req[p].call.identifier) \in K

Init ==
    /\ clock = 0
    /\ ENVIRONMENT \in {"test", "production"}
    /\ started \in BOOLEAN
    /\ redis = [k \in Keys |-> NoHash]
    /\ req = [r \in Requests |-> IdleReq]
    /\ epoch = [k \in Keys |-> NoEpoch]
    /\ users = {}
    /\ token_blocklist = {}
    /\ streams = {}
    /\ ledger = [k \in Keys |-> NoLedger]

\* time passes
Tick ==
    /\ clock < MaxClock
    /\ clock' = clock + 1
    /\ UNCHANGED <<ENVIRONMENT, started, redis, req, epoch, users, token_blocklist, streams, ledger>>

\* RateLimitMiddleware.__call__ up to the await of is_allowed (lines 154-168)
Middleware(r, bearer, client, endpoint) ==
    /\ req[r].pc = "idle"
    /\ [bearer |-> bearer, client |-> client, endpoint |-> endpoint] \in RequestKinds
    /\ OnlyKeys({key_of(GlobalLimiter,
                        get_user_identifier([bearer |-> bearer, client |-> client])),
                 key_of(EndpointLimiter(endpoint),
                        GateIdentifier(endpoint, [bearer |-> bearer, client |-> client]))})
    /\ LET q == [req[r] EXCEPT !.bearer = bearer, !.client = client,
                               !.endpoint = endpoint]
       IN  req' = [req EXCEPT ![r] =
                IF ~started
                THEN [q EXCEPT !.pc = "route", !.mw = [NoCheck EXCEPT !.how = "skipped"]]
                ELSE is_allowed_call(q, "mw", GlobalLimiter, get_user_identifier(q), clock)]
    /\ UNCHANGED <<clock, ENVIRONMENT, started, redis, epoch, users, token_blocklist, streams, ledger>>

\* The store runs the script for the call request r waits in (one EVALSHA), and
\* is_allowed builds (allowed, info) from its reply (lines 104-112, 126-136).
ScriptRun(r) ==
    /\ req[r].pc = "await"
    /\ LET q == req[r]
           limiter == q.call.limiter
           key == key_of(limiter, q.call.identifier)
           data == HMGET(redis, key, clock)
           res == LUA_TOKEN_BUCKET(data, limiter.capacity, limiter.refill_rate,
                                   q.call.now, 1)
       IN  /\ redis' = HMSET_EXPIRE(redis, key, res.tokens, res.last_refill,
                           expire_seconds(limiter.capacity, limiter.refill_rate),
                           clock)
           /\ epoch' = [epoch EXCEPT ![key] =
                           EpochStep(@, data, q.call.now, res.allowed,
                                     RefilledFromEmpty(data, limiter.capacity,
                                                       limiter.refill_rate, q.call.now))]
           /\ req' = [req EXCEPT ![r] =
                        AfterCheck(q, res.allowed, is_allowed_info(limiter, res),
                                   IF res.allowed THEN "allowed" ELSE "rejected")]
    /\ UNCHANGED <<clock, ENVIRONMENT, started, users, token_blocklist, streams>>

ScriptReturn(r) == ScriptRun(r) /\ UNCHANGED ledger

\* The script call raises (store unreachable): the except branch of is_allowed.
ScriptRaise(r) ==
    /\ req[r].pc = "await"
    /\ LET q == req[r]
           out == is_allowed_except(q.call.limiter, q.call.now)
       IN  req' = [req EXCEPT ![r] = AfterCheck(q, out.allowed, out.info, "failopen")]
    /\ UNCHANGED <<clock, ENVIRONMENT, started, redis, epoch, users, token_blocklist, streams, ledger>>

\* Retry-After of the middleware's 429 (rate_limiter.py line 191)
MiddlewareRetryAfter(info, t) == info.reset - int_time(t)

\* RateLimitMiddleware.__call__, "if not allowed" (lines 183-195)
MiddlewareReject(r) ==
    /\ req[r].pc = "mw_reject"
    /\ req' = [req EXCEPT ![r].pc = "done",
                          ![r].resp = [status |-> 429, gate_hdr |-> {},
                                       mw_hdr |-> {req[r].mw.info},
                                       retry_after |->
                                         {MiddlewareRetryAfter(req[r].mw.info, clock)}]]
    /\ UNCHANGED <<clock, ENVIRONMENT, started, redis, epoch, users, token_blocklist, streams, ledger>>

\* redis_rate_limit.wrapper up to the await of is_allowed (lines 164-206)
Wrapper(r) ==
    /\ req[r].pc = "route"
    /\ RouteIsWrapper(req[r].endpoint)
    /\ req' = [req EXCEPT ![r] =
                 IF ENVIRONMENT = "test" \/ ~started
                 THEN [@ EXCEPT !.pc = "endpoint",
                                !.gate = [NoCheck EXCEPT !.how = "bypass"]]
                 ELSE is_allowed_call(@, "gate", EndpointLimiter(@.endpoint),
                                      GateIdentifier(@.endpoint, @), clock)]
    /\ UNCHANGED <<clock, ENVIRONMENT, started, redis, epoch, users, token_blocklist, streams, ledger>>

\* the route of activate_account calls the endpoint function itself
activate_account(r) ==
    /\ req[r].pc = "route"
    /\ ~RouteIsWrapper(req[r].endpoint)
    /\ req' = [req EXCEPT ![r].pc = "endpoint"]
    /\ UNCHANGED <<clock, ENVIRONMENT, started, redis, epoch, users, token_blocklist, streams, ledger>>

\* send_with_headers (rate_limiter.py lines 170-181): the middleware's headers
\* on the response of the inner application, when the middleware made a check
send_with_headers(q) == IF q.mw.how = "skipped" THEN {} ELSE {q.mw.info}

\* Retry-After of the decorator's 429 (redis_rate_limiter.py line 216)
WrapperRetryAfter(info, t) == Max(0, info.reset - int_time(t))

\* redis_rate_limit.wrapper, "if not allowed" (lines 208-218)
WrapperReject(r) ==
    /\ req[r].pc = "gate_reject"
    /\ req' = [req EXCEPT ![r].pc = "done",
                          ![r].resp = [status |-> 429,
                                       gate_hdr |-> {req[r].gate.info},
                                       mw_hdr |-> send_with_headers(req[r]),
                                       retry_after |->
                                         {WrapperRetryAfter(req[r].gate.info, clock)}]]
    /\ UNCHANGED <<clock, ENVIRONMENT, started, redis, epoch, users, token_blocklist, streams, ledger>>

\* what the endpoint function does: returns a Response object (it has a headers
\* attribute), returns a plain value (a schema object, serialised by the
\* framework), or raises an application error
Outcomes == {"response", "value", "error"}

\* the headers the wrapper puts on what func returned (lines 220-229); the
\* bypass branches (lines 167, 188) return func's result as it is
WrapperHeaders(q, outcome) ==
    IF q.gate.how \in {"allowed", "failopen"} /\ outcome = "response"
    THEN {q.gate.info}
    ELSE {}

\* the endpoint function runs, the wrapper and the middleware finish the response
Endpoint(r, outcome) ==
    /\ req[r].pc = "endpoint"
    /\ req' = [req EXCEPT ![r].pc = "done",
                          ![r].executed = @ + 1,
                          ![r].outcome = outcome,
                          ![r].resp = [status |-> IF outcome = "error" THEN 422 ELSE 200,
                                       gate_hdr |-> WrapperHeaders(req[r], outcome),
                                       mw_hdr |-> send_with_headers(req[r]),
                                       retry_after |-> {}]]
    /\ UNCHANGED <<clock, ENVIRONMENT, started, redis, epoch, users, token_blocklist, streams, ledger>>

\* the response is sent (or the caller has its answer): the next request can come
Close(r) ==
    /\ req[r].pc \in {"done", "returned"}
    /\ req' = [req EXCEPT ![r] = IdleReq]
    /\ UNCHANGED <<clock, ENVIRONMENT, started, redis, epoch, users, token_blocklist, streams, ledger>>

Next ==
    \/ Tick
    \/ \E r \in Requests, b \in Bearers, c \in Clients, e \in Endpoints :
          Middleware(r, b, c, e)
    \/ \E r \in Requests : ScriptReturn(r)
    \/ \E r \in Requests : ScriptRaise(r)
    \/ \E r \in Requests : MiddlewareReject(r)
    \/ \E r \in Requests : Wrapper(r)
    \/ \E r \in Requests : activate_account(r)
    \/ \E r \in Requests : WrapperReject(r)
    \/ \E r \in Requests, o \in Outcomes : Endpoint(r, o)
    \/ \E r \in Requests : Close(r)

Spec == Init /\ [][Next]_vars

----------------------------------------------------------------------------
(* The limiter alone: callers of is_allowed, any limiter, any identifier *)

BucketInit ==
    /\ clock = 0
    /\ ENVIRONMENT = "production"
    /\ started = TRUE
    /\ redis = [k \in Keys |-> NoHash]
    /\ req = [p \in Callers |-> IdleReq]
    /\ epoch = [k \in Keys |-> NoEpoch]
    /\ users = {}
    /\ token_blocklist = {}
    /\ streams = {}
    /\ ledger = [k \in Keys |-> NoLedger]

\* a caller enters limiter.is_allowed(identifier)
is_allowed(p, limiter, identifier) ==
    /\ req[p].pc = "idle"
    /\ OnlyKeys({key_of(limiter, identifier)})
    /\ req' = [req EXCEPT ![p] = is_allowed_call(@, "direct", limiter, identifier, clock)]
    /\ UNCHANGED <<clock, ENVIRONMENT, started, redis, epoch, users, token_blocklist, streams, ledger>>

BucketNext ==
    \/ Tick
    \/ \E p \in Callers, l \in Limiters, i \in Clients : is_allowed(p, l, i)
    \/ \E p \in Callers : ScriptReturn(p)
    \/ \E p \in Callers : ScriptRaise(p)
    \/ \E p \in Callers : Close(p)

BucketSpec == BucketInit /\ [][BucketNext]_vars

----------------------------------------------------------------------------
(* The limiter alone, with the history of each key kept over the whole run *)

\* the history of a key after a script run with now at server time t that
\* returned (allowed, reset_num)
LedgerStep(g, now, t, allowed, reset_num) ==
    [runs |-> Min(g.runs + 1, MaxCalls),
     now |-> now,
     at |-> t,
     reset_num |-> reset_num,
     ordered |-> g.ordered /\ (g.runs > 0 => now >= g.now),
     admitted |-> IF allowed
                  THEN [g.admitted EXCEPT ![now] = Min(@ + 1, MaxCalls)]
                  ELSE g.admitted]

\* the store runs the script for caller p (ScriptRun), and the run is entered
\* in the history of its key
LedgerScriptReturn(p) ==
    /\ ScriptRun(p)
    /\ LET q == req[p]
           key == key_of(q.call.limiter, q.call.identifier)
           res == LUA_TOKEN_BUCKET(HMGET(redis, key, clock), q.call.limiter.capacity,
                                   q.call.limiter.refill_rate, q.call.now, 1)
       IN  ledger' = [ledger EXCEPT ![key] =
                         LedgerStep(@, q.call.now, clock, res.allowed, res.reset_num)]

LedgerNext ==
    \/ Tick
    \/ \E p \in Callers, l \in Limiters, i \in Clients : is_allowed(p, l, i)
    \/ \E p \in Callers : LedgerScriptReturn(p)
    \/ \E p \in Callers : Close(p)

LedgerSpec == BucketInit /\ [][LedgerNext]_vars

----------------------------------------------------------------------------
(* Setting a limiter up: any arguments, then callers of its is_allowed *)

\* RedisTokenBucketRateLimiter.__init__: the arguments are stored as they come
RedisTokenBucketRateLimiter(capacity, refill_rate, prefix) ==
    [capacity |-> capacity, refill_rate |-> refill_rate, prefix |-> prefix]

\* arguments a limiter is constructed with: a bucket of no capacity under the
\* constructor's default prefix, and a bucket of the endpoints' capacity
SetupArguments ==
    {[capacity |-> 0, refill_rate |-> 1, prefix |-> "rl:"],
     [capacity |-> EndpointCapacity, refill_rate |-> 1, prefix |-> "endpoint_rl:"]}

SetupLimiters ==
    {RedisTokenBucketRateLimiter(a.capacity, a.refill_rate, a.prefix) :
        a \in SetupArguments}

SetupKeys == Keys \cup {key_of(l, i) : l \in SetupLimiters, i \in Clients}

SetupInit ==
    /\ clock = 0
    /\ ENVIRONMENT = "production"
    /\ started = TRUE
    /\ redis = [k \in SetupKeys |-> NoHash]
    /\ req = [p \in Callers |-> IdleReq]
    /\ epoch = [k \in SetupKeys |-> NoEpoch]
    /\ users = {}
    /\ token_blocklist = {}
    /\ streams = {}
    /\ ledger = [k \in Keys |-> NoLedger]

SetupNext ==
    \/ Tick
    \/ \E p \in Callers, l \in SetupLimiters, i \in Clients : is_allowed(p, l, i)
    \/ \E p \in Callers : ScriptReturn(p)
    \/ \E p \in Callers : ScriptRaise(p)
    \/ \E p \in Callers : Close(p)

SetupSpec == SetupInit /\ [][SetupNext]_vars

\* C15 as claimed: no request is ever checked against a bucket configuration
\* with capacity <= 0 or refill_rate <= 0 (setting such a limiter up fails).
C15_MisconfiguredRejected ==
    \A p \in DOMAIN req :
        req[p].pc = "await" =>
            /\ req[p].call.limiter.capacity > 0
            /\ req[p].call.limiter.refill_rate > 0

----------------------------------------------------------------------------
(* The login bucket at its own figures: capacity 5, refill_rate 0.083 per     *)
(* second.  Time in tenths of a second; a token is ScenarioScale units, so    *)
(* that 0.083 tokens per second are ScenarioRefillNum units per tick.  The    *)
(* variables hold: clock the time, redis the hash of the one key, req the     *)
(* start t0 of the run and the results of its consumes.                       *)

ScenarioCapacity == 5
ScenarioRefillNum == 83
ScenarioRefillDen == 1000
ScenarioTicksPerSec == 10
ScenarioScale == ScenarioRefillDen * ScenarioTicksPerSec
ScenarioMaxT0 == 19     \* latest start of the run, in ticks

ScenarioLimiter ==
    RedisTokenBucketRateLimiter(ScenarioCapacity, ScenarioRefillNum, EndpointPrefix("login"))

ScenarioKey == key_of(ScenarioLimiter, "ip1")

ScenarioInit ==
    /\ clock \in 0..ScenarioMaxT0
    /\ ENVIRONMENT = "production"
    /\ started = TRUE
    /\ redis = [k \in {ScenarioKey} |-> NoHash]
    /\ req = [r \in Requests |-> [pc |-> "scenario", t0 |-> clock, out |-> <<>>]]
    /\ epoch = [k \in {ScenarioKey} |-> NoEpoch]
    /\ users = {}
    /\ token_blocklist = {}
    /\ streams = {}
    /\ ledger = [k \in Keys |-> NoLedger]

\* one run of the script on the key, at now = clock: HMGET, the computation,
\* HMSET and EXPIRE math.ceil((capacity / refill_rate) * 2)
ScenarioConsume(r) ==
    LET l == ScenarioLimiter
        res == TokenBucketScript(HMGET(redis, ScenarioKey, clock), l.capacity,
                                 l.refill_rate, clock, 1, ScenarioScale)
        ttl == Ceil(2 * l.capacity * ScenarioScale, l.refill_rate * ScenarioTicksPerSec)
    IN  /\ \/ Len(req[r].out) < ScenarioCapacity + 1
           \/ Len(req[r].out) = ScenarioCapacity + 1 /\ clock > req[r].t0
        /\ redis' = [redis EXCEPT ![ScenarioKey] =
                       [present |-> TRUE, tokens |-> res.tokens,
                        last_refill |-> res.last_refill,
                        expire_at |-> clock + ttl * ScenarioTicksPerSec]]
        /\ req' = [req EXCEPT ![r].out =
                     Append(@, [allowed |-> res.allowed, tokens |-> res.tokens,
                                reset_num |-> res.reset_num])]
        /\ UNCHANGED <<clock, ENVIRONMENT, started, epoch, users, token_blocklist, streams, ledger>>

\* 12.1 seconds pass after the consumes at t0
ScenarioWait(r) ==
    /\ Len(req[r].out) = ScenarioCapacity + 1
    /\ clock = req[r].t0
    /\ clock' = clock + 12 * ScenarioTicksPerSec + 1
    /\ UNCHANGED <<ENVIRONMENT, started, redis, req, epoch, users, token_blocklist, streams, ledger>>

ScenarioNext ==
    \/ \E r \in Requests : ScenarioConsume(r)
    \/ \E r \in Requests : ScenarioWait(r)

ScenarioSpec == ScenarioInit /\ [][ScenarioNext]_vars

\* C17: capacity 5, refill_rate 0.083, fresh key.  The five consumes at t0
\* succeed and leave 4, 3, 2, 1, 0 tokens; the sixth at t0 fails, with a reset
\* between t0 + 12.0 s and t0 + 12.1 s; the consume at t0 + 12.1 s succeeds.
C17_Scenario ==
    \A r \in DOMAIN req :
        LET out == req[r].out
            t0 == req[r].t0
        IN  \A n \in 1..Len(out) :
                /\ n <= ScenarioCapacity =>
                      /\ out[n].allowed
                      /\ out[n].tokens = (ScenarioCapacity - n) * ScenarioScale
                /\ n = ScenarioCapacity + 1 =>
                      /\ ~out[n].allowed
                      /\ out[n].reset_num >=
                            (t0 + 12 * ScenarioTicksPerSec) * ScenarioRefillNum
                      /\ out[n].reset_num <=
                            (t0 + 12 * ScenarioTicksPerSec + 1) * ScenarioRefillNum
                /\ n = ScenarioCapacity + 2 => out[n].allowed

\* the whole scenario has run: six consumes at t0 and the one 12.1 s later
C17_Witness ==
    \E r \in DOMAIN req :
        /\ Len(req[r].out) = ScenarioCapacity + 2
        /\ req[r].out[ScenarioCapacity + 2].allowed
        /\ clock = req[r].t0 + 12 * ScenarioTicksPerSec + 1

----------------------------------------------------------------------------
(* Claims on the bucket (BucketSpec) *)

C2_Bounds ==
    \A k \in Keys :
        redis[k].present =>
            /\ 0 <= redis[k].tokens
            /\ redis[k].tokens <= CapacityOf(k) * Scale

\* a consume with a now older than the stored last_refill ran on an empty bucket
C2_Witness ==
    \E k \in Keys :
        /\ redis[k].present /\ redis[k].tokens = 0
        /\ epoch[k].back


\* one complete consume of caller p: the script's result on the hash the key
\* held just before, written whole (tokens, last_refill, expiry), and that same
\* result handed to p; nobody else's call moves
SerialConsume(p) ==
    LET q == req[p]
        limiter == q.call.limiter
        key == key_of(limiter, q.call.identifier)
        res == LUA_TOKEN_BUCKET(HMGET(redis, key, clock), limiter.capacity,
                                limiter.refill_rate, q.call.now, 1)
    IN  /\ q.pc = "await"
        /\ redis' = [redis EXCEPT ![key] =
                       [present |-> TRUE, tokens |-> res.tokens,
                        last_refill |-> res.last_refill,
                        expire_at |-> clock + TicksPerSec *
                            expire_seconds(limiter.capacity, limiter.refill_rate)]]
        /\ req'[p].pc = "returned"
        /\ req'[p].ret.allowed = res.allowed
        /\ req'[p].ret.info = is_allowed_info(limiter, res)
        /\ \A o \in DOMAIN req \ {p} : req'[o] = req[o]

\* C3: atomicity.  Every step that changes the store, or that hands a caller a
\* result of the store, is one complete consume of one caller on the bucket as
\* the step before left it: the steps of the store are a serial order of the
\* calls, and no call sees a bucket between another call's read and its write.
C3_Atomic ==
    [][ ( \/ redis' # redis
          \/ \E p \in DOMAIN req :
                /\ req[p].pc = "await" /\ req'[p].pc = "returned"
                /\ req'[p].ret.how \in {"allowed", "rejected"} )
        => \E p \in DOMAIN req : SerialConsume(p) ]_vars

\* a script ran on the key while another caller's call on that key was in flight
C3_Witness ==
    \E p, q \in DOMAIN req :
        /\ p # q
        /\ req[p].pc = "returned" /\ req[p].ret.how \in {"allowed", "rejected"}
        /\ req[q].pc = "await"
        /\ LET l == req[q].call.limiter
               k == key_of(l, req[q].call.identifier)
           IN  /\ redis[k].present
               /\ req[q].call.now < redis[k].expire_at
                      - TicksPerSec * expire_seconds(l.capacity, l.refill_rate)

\* C13: refill.  From a bucket left empty at time t (tokens = 0, stamped t),
\* with no consume since, the cost-1 consumes issued at the instant
\* t + capacity / refill_rate are admitted exactly capacity times: of N such
\* consumes min(N, capacity) are allowed, the (capacity+1)-th is rejected.
C13_RefillMonotone ==
    \A k \in Keys :
        (epoch[k].same /\ epoch[k].refilled)
            => epoch[k].admits = Min(epoch[k].calls, CapacityOf(k))

\* capacity + 1 consumes ran at the instant the empty bucket was full again
C13_Witness ==
    \E k \in Keys :
        /\ epoch[k].same /\ epoch[k].refilled
        /\ epoch[k].calls = CapacityOf(k) + 1
        /\ epoch[k].admits = CapacityOf(k)
        /\ redis[k].present /\ redis[k].tokens = 0

\* what the script returns to a consume (l, now) on the hash data
ScriptResult(l, data, now) ==
    LET res == LUA_TOKEN_BUCKET(data, l.capacity, l.refill_rate, now, 1)
    IN  [allowed |-> res.allowed, tokens |-> res.tokens, reset_num |-> res.reset_num]

\* caller p's consume returns in this step, from a key the TTL has removed
ConsumeAfterExpiry(p) ==
    LET k == key_of(req[p].call.limiter, req[p].call.identifier)
    IN  /\ req[p].pc = "await" /\ req'[p].pc = "returned"
        /\ req'[p].ret.how \in {"allowed", "rejected"}
        /\ redis[k].present /\ clock >= redis[k].expire_at

\* the result on the missing key is the result on the key had it been retained
SameAsRetained(p) ==
    LET l == req[p].call.limiter
        k == key_of(l, req[p].call.identifier)
    IN  ScriptResult(l, NoHash, req[p].call.now)
            = ScriptResult(l, redis[k], req[p].call.now)

\* a key expires only when its bucket has refilled to capacity
ExpiresFull ==
    \A k \in Keys :
        redis[k].present =>
            redis[k].tokens
               + (redis[k].expire_at - redis[k].last_refill) * LimiterOf(k).refill_rate
                  >= CapacityOf(k) * Scale

ConsumeRuns(p) ==
    /\ req[p].pc = "await" /\ req'[p].pc = "returned"
    /\ req'[p].ret.how \in {"allowed", "rejected"}

\* the key of the call p waits in
CallKey(p) == key_of(req[p].call.limiter, req[p].call.identifier)

\* the key is in the store at server time t
Stored(k, t) == redis[k].present /\ t < redis[k].expire_at

\* the tokens of the bucket of p's call once the refill is done, in units
PostRefill(p) ==
    LET l == req[p].call.limiter
        k == CallKey(p)
        now == req[p].call.now
        tokens == IF Stored(k, clock) THEN redis[k].tokens ELSE l.capacity * Scale
        last_refill == IF Stored(k, clock) THEN redis[k].last_refill ELSE now
    IN  IF now - last_refill > 0
        THEN Min(l.capacity * Scale, tokens + (now - last_refill) * l.refill_rate)
        ELSE tokens

\* C23: the consume step.  A missing key counts as tokens = capacity,
\* last_refill = now.  After the refill, a consume of cost 1 that finds
\* tokens >= 1 is allowed and the stored tokens are the refilled tokens less 1;
\* one that finds tokens < 1 is rejected and the stored tokens are the
\* refilled tokens: a rejected consume takes nothing.
C23_ConsumeStep ==
    [][ \A p \in DOMAIN req :
          ConsumeRuns(p) =>
              LET k == CallKey(p)
              IN  /\ ~Stored(k, clock) => redis'[k].last_refill = req[p].call.now
                  /\ IF PostRefill(p) >= Scale
                     THEN /\ req'[p].ret.allowed
                          /\ redis'[k].tokens = PostRefill(p) - Scale
                     ELSE /\ ~req'[p].ret.allowed
                          /\ redis'[k].tokens = PostRefill(p) ]_vars

\* a consume was rejected on a bucket that had refilled to a part of a token,
\* and the part is still there
C23_Witness ==
    \E k \in Keys, p \in DOMAIN req :
        /\ req[p].pc = "returned" /\ req[p].ret.how = "rejected"
        /\ redis[k].present /\ 0 < redis[k].tokens /\ redis[k].tokens < Scale
        /\ redis[k].last_refill > 0

C25_ResetTs ==
    [][ \A p \in DOMAIN req :
          ConsumeRuns(p) =>
              LET k == CallKey(p)
                  rate == req[p].call.limiter.refill_rate
                  now == req[p].call.now
              IN  /\ ledger'[k].reset_num
                        = IF redis'[k].tokens >= Scale
                          THEN now * rate
                          ELSE now * rate + (Scale - redis'[k].tokens)
                  /\ ledger'[k].reset_num >= now * rate
                  /\ (/\ ledger[k].runs > 0
                      /\ now >= ledger[k].at
                      /\ now * rate >= ledger[k].reset_num)
                        => req'[p].ret.allowed ]_vars

\* C28 as claimed: the admission bound.  On a key whose script runs carried
\* nows that never decreased, the consumes allowed with a now in an interval
\* [t1, t2] are at most capacity + refill_rate * (t2 - t1), whether or not the
\* key expired in between.
C28_AdmissionBound ==
    \A k \in Keys :
        ledger[k].ordered =>
            \A t1, t2 \in 0..MaxClock :
                t1 <= t2 =>
                    LET Sum[t \in t1..t2] ==
                            ledger[k].admitted[t] + (IF t = t1 THEN 0 ELSE Sum[t - 1])
                    IN  Sum[t2] * Scale
                           <= CapacityOf(k) * Scale + LimiterOf(k).refill_rate * (t2 - t1)

\* C26: expiry.  Every script run on a key, allowed or rejected, leaves the
\* key in the store with its expiry ceil(2 * capacity / refill_rate) seconds
\* after the run; nothing but a script run on the key changes what the store
\* holds for it (there is no delete), and a key that was in the store is gone
\* only once that time has passed since the last run on it.
C26_Expiry ==
    [][ /\ \A p \in DOMAIN req :
              ConsumeRuns(p) =>
                  LET l == req[p].call.limiter
                      k == CallKey(p)
                  IN  /\ redis'[k].present
                      /\ redis'[k].expire_at
                            = clock + TicksPerSec *
                                Ceil(2 * l.capacity * Scale, l.refill_rate * TicksPerSec)
        /\ \A k \in Keys :
              /\ redis'[k] # redis[k]
                    => \E p \in DOMAIN req : ConsumeRuns(p) /\ CallKey(p) = k
              /\ (Stored(k, clock) /\ ~(redis'[k].present /\ clock' < redis'[k].expire_at))
                    => (clock' >= redis[k].expire_at /\ redis'[k] = redis[k]) ]_vars

\* a rejected consume ran on a stored key after time 0 and the key's expiry
\* counts from that run
C26_Witness ==
    \E k \in Keys, p \in DOMAIN req :
        /\ req[p].pc = "returned" /\ req[p].ret.how = "rejected"
        /\ clock > 0
        /\ redis[k].present /\ redis[k].tokens < Scale
        /\ redis[k].expire_at
              = clock + TicksPerSec * expire_seconds(CapacityOf(k), LimiterOf(k).refill_rate)

----------------------------------------------------------------------------
(* Claims on the requests (Spec) *)

\* the check a call of the given layer fills in
CheckOf(q, layer) ==
    IF layer = "mw" THEN q.mw ELSE IF layer = "gate" THEN q.gate ELSE q.ret

\* the script call of request r raised in this step
FailedOpen(r) ==
    /\ req[r].pc = "await" /\ req'[r].pc # "await"
    /\ CheckOf(req'[r], req[r].call.layer).how = "failopen"

\* what C4 says of a check whose store call raised, but for the value of reset
FailOpenAdmits(r) ==
    LET c == CheckOf(req'[r], req[r].call.layer)
        l == req[r].call.limiter
    IN  /\ c.allowed
        /\ req'[r].pc \in {"route", "endpoint"}
        /\ c.info.limit = l.capacity
        /\ c.info.remaining = l.capacity

Rejected(q) == q.mw.how = "rejected" \/ q.gate.how = "rejected"

\* gate "none": the route of the request has no gate
Admitted(q) ==
    /\ q.mw.how \in {"skipped", "allowed", "failopen"}
    /\ q.gate.how \in {"bypass", "allowed", "failopen", "none"}

\* C5: a store failure never changes the outcome.  A check whose store call
\* raised never rejects; the response of a request is the endpoint's own
\* unless a check that reached the store rejected it, and then it is the 429
\* with Retry-After; the subsystem produces no other response.
C5_StoreFailureAbsorbed ==
    \A r \in DOMAIN req :
        LET q == req[r]
        IN  /\ q.mw.how = "failopen" => q.pc # "mw_reject"
            /\ q.gate.how = "failopen" => q.pc # "gate_reject"
            /\ q.pc = "done" =>
                  IF Rejected(q)
                  THEN q.resp.status = 429 /\ q.resp.retry_after # {}
                  ELSE /\ q.executed = 1
                       /\ q.resp.status = IF q.outcome = "error" THEN 422 ELSE 200

\* the store failed in the middleware's check and the endpoint answered
C5_Witness ==
    \E r \in DOMAIN req :
        /\ req[r].pc = "done"
        /\ req[r].mw.how = "failopen" /\ req[r].gate.how = "allowed"
        /\ req[r].resp.status = 200

\* C9: the endpoint function runs if and only if the request's checks ended
\* in admission: never after a rejection, and exactly once after admission.
C9_HandlerIffAdmitted ==
    \A r \in DOMAIN req :
        LET q == req[r]
        IN  /\ q.executed <= 1
            /\ Rejected(q) => q.executed = 0
            /\ q.pc = "done" => (q.executed = 1 <=> Admitted(q))

\* the decorator rejected a request the middleware had admitted
C9_Witness ==
    \E r \in DOMAIN req :
        /\ req[r].pc = "done"
        /\ req[r].mw.how = "allowed" /\ req[r].gate.how = "rejected"
        /\ req[r].executed = 0

\* C7 as claimed: with ENVIRONMENT == "test" no check of a request calls the
\* store and none rejects.
C7_TestBypass ==
    ENVIRONMENT = "test" =>
        /\ \A r \in DOMAIN req : req[r].pc # "await" /\ req[r].resp.status # 429
        /\ \A k \in Keys : ~redis[k].present

\* C8 as claimed: every rejection is a 429 with limit = capacity,
\* remaining = 0, reset and a Retry-After that is never negative.
C8_Rejection ==
    \A r \in DOMAIN req :
        LET q == req[r]
            h == IF q.gate.how = "rejected" THEN q.resp.gate_hdr ELSE q.resp.mw_hdr
        IN  (ENVIRONMENT = "production" /\ q.pc = "done" /\ Rejected(q)) =>
                /\ q.resp.status = 429
                /\ \E i \in h : i.limit > 0 /\ i.remaining = 0
                /\ q.resp.retry_after # {}
                /\ \A x \in q.resp.retry_after : x >= 0

\* C10 as claimed: the response of an admitted request carries the metadata
\* of every check made for it, whatever the endpoint returned or raised.
C10_HeadersAttached ==
    \A r \in DOMAIN req :
        LET q == req[r]
        IN  (ENVIRONMENT = "production" /\ q.pc = "done" /\ Admitted(q)) =>
                /\ q.gate.how \in {"allowed", "failopen"}
                      => q.resp.gate_hdr = {q.gate.info}
                /\ q.mw.how \in {"allowed", "failopen"}
                      => q.resp.mw_hdr = {q.mw.info}

\* C11: bucket isolation.  The key of an endpoint's check is
\* prefix + operation name + ":" + identifier, and a bucket changes only in a
\* step that returns a consume addressed to that very (operation, identifier):
\* a consume leaves the bucket of every other operation and of every other
\* identifier as it was, the same identifier on another operation included.
C11_Isolation ==
    [][ /\ \A e \in Endpoints, i \in Identifiers :
              key_of(EndpointLimiter(e), i)
                  = DecoratorPrefix(e) \o FuncName(e) \o ":" \o i
        /\ \A l \in Limiters, i \in Identifiers :
              redis'[key_of(l, i)] # redis[key_of(l, i)] =>
                  \E p \in DOMAIN req :
                      /\ req[p].pc = "await" /\ req'[p].pc # "await"
                      /\ req[p].call.limiter = l
                      /\ req[p].call.identifier = i ]_vars

\* the gate admitted a request on its endpoint's bucket while the global
\* bucket of the same identifier was empty
C11_Witness ==
    \E r \in DOMAIN req :
        LET q == req[r]
            g == key_of(GlobalLimiter, get_user_identifier(q))
            k == key_of(EndpointLimiter(q.endpoint), GateIdentifier(q.endpoint, q))
        IN  /\ q.pc = "endpoint" /\ q.gate.how = "allowed"
            /\ get_user_identifier(q) = GateIdentifier(q.endpoint, q)
            /\ g # k
            /\ redis[g].present /\ redis[g].tokens = 0
            /\ redis[k].present /\ redis[k].last_refill = redis[g].last_refill

\* C16 as claimed: every endpoint of the table is served through its own gate.
\* Outside test mode, with the limiter set up and the store answering, a
\* request reaches its endpoint function only after a consume on the
\* endpoint's bucket was allowed (so that, no bucket admitting more than its
\* capacity at one instant, request number capacity+1 of a burst gets 429).
C16_ServedThroughGate ==
    \A r \in DOMAIN req :
        LET q == req[r]
        IN  (/\ ENVIRONMENT = "production" /\ started
             /\ q.pc = "done" /\ q.executed = 1
             /\ q.mw.how # "failopen" /\ q.gate.how # "failopen")
                => q.gate.how = "allowed"

\* C18: the decision of a check that reached the store.  allowed is the
\* script's, limit = capacity, remaining = floor(tokens_left), so that
\* 0 <= remaining <= limit, and reset = the whole seconds of the script's
\* reset_ts.
C18_DecisionInfo ==
    [][ \A r \in DOMAIN req :
          LET l == req[r].call.limiter
              k == key_of(l, req[r].call.identifier)
              res == ScriptResult(l, HMGET(redis, k, clock), req[r].call.now)
              c == CheckOf(req'[r], req[r].call.layer)
              sec == l.refill_rate * TicksPerSec
          IN  (/\ req[r].pc = "await" /\ req'[r].pc # "await"
               /\ c.how \in {"allowed", "rejected"})
                  => /\ c.allowed = res.allowed
                     /\ c.info.limit = l.capacity
                     /\ c.info.remaining * Scale <= res.tokens
                     /\ res.tokens < (c.info.remaining + 1) * Scale
                     /\ 0 <= c.info.remaining /\ c.info.remaining <= c.info.limit
                     /\ c.info.reset * sec <= res.reset_num
                     /\ res.reset_num < (c.info.reset + 1) * sec ]_vars

\* a gate's check left a fraction of a token in the bucket and reported the
\* whole tokens below it
C18_Witness ==
    \E r \in DOMAIN req :
        LET q == req[r]
            k == key_of(EndpointLimiter(q.endpoint), GateIdentifier(q.endpoint, q))
        IN  /\ q.pc = "gate_reject" /\ q.gate.how = "rejected"
            /\ redis[k].present
            /\ redis[k].tokens % Scale # 0
            /\ q.gate.info.remaining * Scale < redis[k].tokens
            /\ q.gate.info.limit = EndpointLimiter(q.endpoint).capacity

\* C12 as claimed: a gate configured without an identifier function checks the
\* bucket of the bearer token if the request carries one, else of the client
\* address, else of "unknown".
C12_DefaultIdentifier ==
    \A r \in DOMAIN req :
        (/\ req[r].pc = "await" /\ req[r].call.layer = "gate"
         /\ ~HasGetIdentifier(req[r].endpoint))
            => req[r].call.identifier = get_user_identifier(req[r])

\* C27: the global bucket comes first.  With the limiter set up, every HTTP
\* request is first checked on the global bucket (prefix "ratelimit:", the
\* global capacity, keyed by get_user_identifier); the gate of its endpoint is
\* consulted only once that check admitted the request; and a request the
\* global bucket rejected makes no gate check and changes no endpoint bucket.
C27_GlobalFirst ==
    [][ \A r \in DOMAIN req :
          /\ (started /\ req[r].pc = "idle" /\ req'[r].pc # "idle")
                => /\ req'[r].pc = "await"
                   /\ req'[r].call.layer = "mw"
                   /\ req'[r].call.limiter.prefix = "ratelimit:"
                   /\ req'[r].call.limiter.capacity = GlobalCapacity
                   /\ req'[r].call.identifier = get_user_identifier(req'[r])
          /\ (req'[r].pc = "await" /\ req'[r].call.layer = "gate")
                => (req'[r].mw.allowed /\ req'[r].mw.how \in {"allowed", "failopen"})
          /\ req'[r].mw.how = "rejected"
                => /\ req'[r].gate = NoCheck
                   /\ req'[r].call.layer # "gate"
                   /\ req'[r].executed = 0
                   /\ \A k \in Keys :
                         LimiterOf(k).prefix # "ratelimit:" => redis'[k] = redis[k] ]_vars

\* the global bucket rejected a request of a client whose earlier request
\* had consumed from the bucket of its endpoint: the 429 is the middleware's
C27_Witness ==
    \E r \in DOMAIN req, k \in Keys :
        /\ req[r].pc = "done" /\ req[r].resp.status = 429
        /\ req[r].mw.how = "rejected" /\ req[r].gate.how = "none"
        /\ LimiterOf(k).prefix # "ratelimit:"
        /\ redis[k].present /\ redis[k].tokens < CapacityOf(k) * Scale

----------------------------------------------------------------------------
(* Accounts: register_user, activate_account and login on the users table.  *)
(* req holds the sessions of concurrent requests; a session of register_user *)
(* stands between its awaits (user_exists, create_user).                     *)

NSessions == 2      \* concurrent requests to the account endpoints

Sessions == 1..NSessions
Usernames == {"alice", "bob"}
Emails == {"a@x.io", "b@x.io"}
Passwords == {"pw1", "pw2"}
\* the password accounts are registered with; the other one is a wrong password
RegisteredPasswords == {"pw1"}

\* app/core/security.py get_password_hash / verify_password
get_password_hash(password) == <<"hash", password>>
verify_password(plain_password, hashed_password) ==
    hashed_password = get_password_hash(plain_password)

\* app/core/security.py generate_token: secrets.token_urlsafe(32), a random
\* string no other row holds; here the string of the row it is made for
generate_token(username) == "act-" \o username

\* the token query parameter of /activate
ActivationTokens == {generate_token(n) : n \in Usernames} \cup {"act-unknown"}

NoResponse == [status |-> 0, error |-> "none", tokens |-> {}]

\* no row
NoUser ==
    [username |-> "none", email |-> "none", password_hash |-> <<"hash", "none">>,
     is_active |-> FALSE, is_verified |-> FALSE, activation_token |-> "none"]

IdleSession ==
    [pc |-> "idle", op |-> "none", username |-> "none", email |-> "none",
     password |-> "none", token |-> "none", user |-> NoUser, resp |-> NoResponse]

\* rows the table may hold when the application starts
SeedRows ==
    {[username |-> "alice", email |-> "a@x.io",
      password_hash |-> get_password_hash("pw1"),
      is_active |-> a, is_verified |-> v,
      activation_token |-> generate_token("alice")] : a, v \in BOOLEAN}

AuthInit ==
    /\ clock = 0
    /\ ENVIRONMENT = "production"
    /\ started = TRUE
    /\ redis = [k \in Keys |-> NoHash]
    /\ req = [s \in Sessions |-> IdleSession]
    /\ epoch = [k \in Keys |-> NoEpoch]
    /\ users \in {{}} \cup {{u} : u \in SeedRows}
    /\ token_blocklist = {}
    /\ streams = {}
    /\ ledger = [k \in Keys |-> NoLedger]

\* UserCRUD.user_exists: a row with this username or this email
user_exists(table, username, email) ==
    \E u \in table : u.username = username \/ u.email = email

\* the unique constraints of the users table (username, email) admit the row
UniqueOk(table, row) ==
    \A u \in table : u.username # row.username /\ u.email # row.email

\* UserCRUD.create_user: the row built from the request
NewUser(q) ==
    [username |-> q.username, email |-> q.email,
     password_hash |-> get_password_hash(q.password),
     is_active |-> TRUE, is_verified |-> FALSE,
     activation_token |-> generate_token(q.username)]

\* register_user up to create_user (auth.py lines 70-82): 409 if user_exists
RegisterCheck(s, username, email, password) ==
    /\ req[s].pc = "idle"
    /\ LET q == [req[s] EXCEPT !.op = "register", !.username = username,
                               !.email = email, !.password = password]
       IN  req' = [req EXCEPT ![s] =
                IF user_exists(users, username, email)
                THEN [q EXCEPT !.pc = "done",
                               !.resp = [status |-> 409, error |-> "CONFLICT",
                                         tokens |-> {}]]
                ELSE [q EXCEPT !.pc = "create"]]
    /\ UNCHANGED <<clock, ENVIRONMENT, started, redis, epoch, users, token_blocklist, streams, ledger>>

\* register_user from create_user on (line 84): session.commit() inserts the
\* row, or raises IntegrityError on a unique constraint; BaseCRUD.create
\* rolls back and re-raises, no handler catches it: 500
RegisterCreate(s) ==
    /\ req[s].pc = "create"
    /\ IF UniqueOk(users, NewUser(req[s]))
       THEN /\ users' = users \cup {NewUser(req[s])}
            /\ req' = [req EXCEPT ![s].pc = "done",
                                  ![s].resp = [status |-> 201, error |-> "none",
                                               tokens |-> {}]]
       ELSE /\ users' = users
            /\ req' = [req EXCEPT ![s].pc = "done",
                                  ![s].resp = [status |-> 500, error |-> "IntegrityError",
                                               tokens |-> {}]]
    /\ UNCHANGED <<clock, ENVIRONMENT, started, redis, epoch, token_blocklist, streams, ledger>>

\* UserCRUD.get_by_activation_token: the rows that hold the token
get_by_activation_token(table, token) ==
    {u \in table : u.activation_token = token}

\* activate_account that does not look at is_verified
activation_unchecked(table, token) ==
    IF get_by_activation_token(table, token) = {} THEN "invalid" ELSE "activate"

\* activate_account (auth.py lines 179-191): what it decides for a token
activation(table, token) ==
    LET found == get_by_activation_token(table, token)
    IN  IF found = {} THEN "invalid"
        ELSE IF \E u \in found : u.is_verified THEN "already"
        ELSE "activate"

\* activate_account up to update_user (auth.py lines 179-191): 422 for a token
\* no user holds, 200 "already activated" for a verified user, else the user
\* read from the table with is_verified set
ActivateGet(s, token) ==
    /\ req[s].pc = "idle"
    /\ LET q == [IdleSession EXCEPT !.op = "activate", !.token = token]
           d == activation(users, token)
       IN  req' = [req EXCEPT ![s] =
                CASE d = "invalid" ->
                        [q EXCEPT !.pc = "done",
                                  !.resp = [status |-> 422, error |-> "Invalid activation token.",
                                            tokens |-> {}]]
                  [] d = "already" ->
                        [q EXCEPT !.pc = "done",
                                  !.resp = [status |-> 200, error |-> "Account already activated.",
                                            tokens |-> {}]]
                  [] OTHER ->
                        [q EXCEPT !.pc = "update",
                                  !.user = [(CHOOSE u \in get_by_activation_token(users, token) : TRUE)
                                               EXCEPT !.is_verified = TRUE]]]
    /\ UNCHANGED <<clock, ENVIRONMENT, started, redis, epoch, users, token_blocklist, streams, ledger>>

\* activate_account from update_user on (auth.py lines 192-195): BaseCRUD.update
\* sets the fields of UserRead on the row with the user's uid, if there is one
ActivateUpdate(s) ==
    /\ req[s].pc = "update"
    /\ users' = {IF u.username = req[s].user.username
                 THEN [u EXCEPT !.email = req[s].user.email,
                                !.is_active = req[s].user.is_active,
                                !.is_verified = req[s].user.is_verified]
                 ELSE u : u \in users}
    /\ req' = [req EXCEPT ![s].pc = "done",
                          ![s].resp = [status |-> 200, error |-> "Account activated successfully.",
                                       tokens |-> {}]]
    /\ UNCHANGED <<clock, ENVIRONMENT, started, redis, epoch, token_blocklist, streams, ledger>>

\* UserCRUD.get_user_for_auth: the rows whose username or email is the login name
get_user_for_auth(table, username) ==
    {u \in table : u.username = username \/ u.email = username}

\* JWTHandler.create_access_token, plain and refresh=True
TokenPair(user) == {<<"access", user.username>>, <<"refresh", user.username>>}

\* login issuing tokens without the is_verified check
login_unverified(table, username, password) ==
    LET found == get_user_for_auth(table, username)
    IN  IF found = {}
        THEN [status |-> 404, error |-> "RESOURCE_NOT_FOUND", tokens |-> {}]
        ELSE IF Cardinality(found) > 1
        THEN [status |-> 500, error |-> "MultipleResultsFound", tokens |-> {}]
        ELSE LET user == CHOOSE u \in found : TRUE
             IN  IF ~verify_password(password, user.password_hash)
                 THEN [status |-> 422, error |-> "credentials", tokens |-> {}]
                 ELSE IF ~user.is_active
                 THEN [status |-> 422, error |-> "inactive", tokens |-> {}]
                 ELSE [status |-> 200, error |-> "none", tokens |-> TokenPair(user)]

\* login (auth.py lines 116-168): the response to a login name and a password
login(table, username, password) ==
    LET found == get_user_for_auth(table, username)
    IN  IF found = {}
        THEN [status |-> 404, error |-> "RESOURCE_NOT_FOUND", tokens |-> {}]
        ELSE IF Cardinality(found) > 1
        THEN [status |-> 500, error |-> "MultipleResultsFound", tokens |-> {}]
        ELSE LET user == CHOOSE u \in found : TRUE
             IN  IF ~verify_password(password, user.password_hash)
                 THEN [status |-> 422, error |-> "credentials", tokens |-> {}]
                 ELSE IF ~user.is_active
                 THEN [status |-> 422, error |-> "inactive", tokens |-> {}]
                 ELSE IF ~user.is_verified
                 THEN [status |-> 422, error |-> "unverified", tokens |-> {}]
                 ELSE [status |-> 200, error |-> "none", tokens |-> TokenPair(user)]

\* a request to /login is served
Login(s, username, password) ==
    /\ req[s].pc = "idle"
    /\ req' = [req EXCEPT ![s] =
                 [IdleSession EXCEPT !.pc = "done", !.op = "login",
                                     !.username = username, !.password = password,
                                     !.resp = login(users, username, password)]]
    /\ UNCHANGED <<clock, ENVIRONMENT, started, redis, epoch, users, token_blocklist, streams, ledger>>

\* the response is sent: the session serves the next request
SessionClose(s) ==
    /\ req[s].pc = "done"
    /\ req' = [req EXCEPT ![s] = IdleSession]
    /\ UNCHANGED <<clock, ENVIRONMENT, started, redis, epoch, users, token_blocklist, streams, ledger>>

AuthNext ==
    \/ \E s \in Sessions, n \in Usernames, e \in Emails, p \in RegisteredPasswords :
          RegisterCheck(s, n, e, p)
    \/ \E s \in Sessions : RegisterCreate(s)
    \/ \E s \in Sessions, t \in ActivationTokens : ActivateGet(s, t)
    \/ \E s \in Sessions : ActivateUpdate(s)
    \/ \E s \in Sessions, n \in Usernames \cup Emails, p \in Passwords : Login(s, n, p)
    \/ \E s \in Sessions : SessionClose(s)

AuthSpec == AuthInit /\ [][AuthNext]_vars

\* a login is answered in this step
LoginAnswered(s) ==
    req[s].pc = "idle" /\ req'[s].pc = "done" /\ req'[s].op = "login"

RegisterAnswered(s) ==
    req[s].pc # "done" /\ req'[s].pc = "done" /\ req'[s].op = "register"

\* C20 as claimed: a registration whose username or email belongs to a user
\* when it is answered gets 409 and creates no user, and no two users share a
\* username or an email, in every interleaving of concurrent registrations.
C20_DuplicateConflict ==
    [][ /\ \A u, v \in users :
              (u.username = v.username \/ u.email = v.email) => u = v
        /\ \A s \in DOMAIN req :
              (RegisterAnswered(s)
               /\ \E u \in users : u.username = req'[s].username
                                      \/ u.email = req'[s].email)
                  => (req'[s].resp.status = 409 /\ users' = users) ]_vars

\* C22: activation is idempotent.  A request to /activate whose token no user
\* holds is answered 422 and changes no user; one whose token belongs to a
\* verified user is answered 200 "already activated" and changes no user; one
\* whose token belongs to an unverified user goes on to set is_verified, is
\* answered 200, and changes nothing but is_verified of that user.
C22_ActivationIdempotent ==
    [][ \A s \in DOMAIN req :
          /\ (req[s].pc = "idle" /\ req'[s].pc # "idle" /\ req'[s].op = "activate") =>
                LET found == {u \in users : u.activation_token = req'[s].token}
                IN  /\ users' = users
                    /\ found = {} => (req'[s].pc = "done" /\ req'[s].resp.status = 422)
                    /\ (\E u \in found : u.is_verified)
                          => /\ req'[s].pc = "done"
                             /\ req'[s].resp.status = 200
                             /\ req'[s].resp.error = "Account already activated."
                    /\ (found # {} /\ \A u \in found : ~u.is_verified)
                          => req'[s].pc = "update"
          /\ (req[s].pc = "update" /\ req'[s].pc = "done") =>
                /\ req'[s].resp.status = 200
                /\ req'[s].resp.error = "Account activated successfully."
                /\ users' = {IF u.activation_token = req[s].token
                             THEN [u EXCEPT !.is_verified = TRUE] ELSE u : u \in users} ]_vars

\* bob registered, activated the account, and activated again with the same
\* token: the second request got "already activated"
C22_Witness ==
    \E s, t \in DOMAIN req :
        /\ req[s].pc = "done" /\ req[s].op = "activate"
        /\ req[s].resp.error = "Account activated successfully."
        /\ req[t].pc = "done" /\ req[t].op = "activate"
        /\ req[t].token = req[s].token
        /\ req[t].resp.error = "Account already activated."
        /\ \E u \in users : u.username = "bob" /\ u.activation_token = req[s].token
                                /\ u.is_verified

----------------------------------------------------------------------------
(* Tokens: JWTHandler.create_access_token and JWTHandler.decode_token.      *)
(* A token is the payload it carries and the signature over it: the key and *)
(* the payload that were signed.  jwt.decode accepts a token when the       *)
(* signature was made with the key it is given over the payload the token   *)
(* carries, and the exp claim, when there is one, is later than now-leeway. *)

JWT_SECRET == "server-secret"       \* settings.JWT_SECRET
Secrets == {JWT_SECRET, "other-secret"}
LEEWAY == 10                        \* seconds, jwt.decode(leeway=10)
MaxTokenSec == 13                   \* last second of the clock of TokenSpec

ClaimNames == {"user", "exp", "jti", "refresh"}
Jtis == {"j1", "j2"}                \* str(uuid.uuid4())
ExpiresDeltas == {-1, 2}            \* expires_delta, in seconds

Malformed == [wellformed |-> FALSE, payload |-> <<>>, key |-> "none", signed |-> <<>>]

\* jwt.encode(payload, key, algorithm)
jwt_encode(payload, key) ==
    [wellformed |-> TRUE, payload |-> payload, key |-> key, signed |-> payload]

\* JWTHandler.create_access_token at time now (ticks); exp is int(...) of the
\* expiry's timestamp, in whole seconds
create_access_token(user_data, expires_delta, refresh, jti, now) ==
    jwt_encode([n \in ClaimNames |->
                   CASE n = "user" -> user_data
                     [] n = "exp" -> (now + expires_delta * TicksPerSec) \div TicksPerSec
                     [] n = "jti" -> jti
                     [] n = "refresh" -> refresh],
               JWT_SECRET)

\* jwt.decode(jwt, key, algorithms, leeway) at time now (ticks): the payload,
\* or the PyJWTError it raises
jwt_decode(token, key, leeway, now) ==
    IF ~token.wellformed
    THEN [raised |-> "DecodeError", payload |-> <<>>]
    ELSE IF token.key # key \/ token.signed # token.payload
    THEN [raised |-> "InvalidSignatureError", payload |-> <<>>]
    ELSE IF "exp" \in DOMAIN token.payload
            /\ token.payload["exp"] * TicksPerSec <= now - leeway * TicksPerSec
    THEN [raised |-> "ExpiredSignatureError", payload |-> <<>>]
    ELSE [raised |-> "none", payload |-> token.payload]

\* JWTHandler.decode_token at time now: TokenData, None, or the exception that
\* leaves it (token_data["user"] ... of a payload without the claim: KeyError,
\* which is no PyJWTError)
decode_token(token, now) ==
    LET d == jwt_decode(token, JWT_SECRET, LEEWAY, now)
    IN  IF d.raised # "none"
        THEN [kind |-> "None", raised |-> "none", data |-> <<>>]
        ELSE IF ClaimNames \subseteq DOMAIN d.payload
        THEN [kind |-> "TokenData", raised |-> "none",
              data |-> [n \in ClaimNames |-> d.payload[n]]]
        ELSE [kind |-> "raise", raised |-> "KeyError", data |-> <<>>]

NoToken == [pc |-> "none", made |-> Malformed, token |-> Malformed,
            result |-> [kind |-> "none", raised |-> "none", data |-> <<>>], at |-> 0]

TokenInit ==
    /\ clock = 0
    /\ ENVIRONMENT = "production"
    /\ started = TRUE
    /\ redis = [k \in Keys |-> NoHash]
    /\ epoch = [k \in Keys |-> NoEpoch]
    /\ users = {}
    /\ token_blocklist = {}
    /\ streams = {}
    /\ ledger = [k \in Keys |-> NoLedger]
    /\ req = [s \in {1} |-> NoToken]

\* the server issues a token
TokenCreate(s, user_data, expires_delta, refresh, jti) ==
    /\ req[s].pc = "none"
    /\ LET t == create_access_token(user_data, expires_delta, refresh, jti, clock)
       IN  req' = [req EXCEPT ![s] = [NoToken EXCEPT !.pc = "held", !.made = t, !.token = t]]
    /\ UNCHANGED <<clock, ENVIRONMENT, started, redis, epoch, users, token_blocklist, streams, ledger>>

\* the holder alters the payload of the token and keeps its signature
TokenAlter(s, n) ==
    /\ req[s].pc = "held" /\ req[s].made.wellformed /\ req[s].token = req[s].made
    /\ n \in {"exp", "refresh"}
    /\ LET p == req[s].token.payload
           q == IF n = "exp" THEN [p EXCEPT !["exp"] = @ + 100]
                             ELSE [p EXCEPT !["refresh"] = ~@]
       IN  req' = [req EXCEPT ![s].token.payload = q]
    /\ UNCHANGED <<clock, ENVIRONMENT, started, redis, epoch, users, token_blocklist, streams, ledger>>

\* a token that create_access_token did not produce: a string that is no JWT,
\* or a JWT encoded under some key with some of the claims
TokenOther(s, key, names, exp) ==
    /\ req[s].pc = "none"
    /\ \E t \in {Malformed,
                 jwt_encode([n \in names |->
                                CASE n = "user" -> "alice"
                                  [] n = "exp" -> exp
                                  [] n = "jti" -> "j1"
                                  [] n = "refresh" -> FALSE], key)} :
          req' = [req EXCEPT ![s] = [NoToken EXCEPT !.pc = "held", !.token = t]]
    /\ UNCHANGED <<clock, ENVIRONMENT, started, redis, epoch, users, token_blocklist, streams, ledger>>

\* decode_token is called with the token
TokenDecode(s) ==
    /\ req[s].pc = "held"
    /\ req' = [req EXCEPT ![s].pc = "decoded",
                          ![s].result = decode_token(req[s].token, clock),
                          ![s].at = clock]
    /\ UNCHANGED <<clock, ENVIRONMENT, started, redis, epoch, users, token_blocklist, streams, ledger>>

\* time passes
TokenTick ==
    /\ clock < MaxTokenSec * TicksPerSec
    /\ clock' = clock + 1
    /\ UNCHANGED <<ENVIRONMENT, started, redis, req, epoch, users, token_blocklist, streams, ledger>>

TokenNext ==
    \/ \E s \in DOMAIN req, u \in Usernames, d \in ExpiresDeltas, r \in BOOLEAN, j \in Jtis :
          TokenCreate(s, u, d, r, j)
    \/ \E s \in DOMAIN req, n \in ClaimNames : TokenAlter(s, n)
    \/ \E s \in DOMAIN req, k \in Secrets, names \in SUBSET ClaimNames, e \in {0, 100} :
          TokenOther(s, k, names, e)
    \/ \E s \in DOMAIN req : TokenDecode(s)
    \/ TokenTick

TokenSpec == TokenInit /\ [][TokenNext]_vars

\* the token of the session is one create_access_token produced, unaltered,
\* and its expiry was not more than the leeway in the past when it was decoded
GenuineInTime(q) ==
    /\ q.made.wellformed /\ q.token = q.made
    /\ q.at - q.made.payload["exp"] * TicksPerSec <= LEEWAY * TicksPerSec

\* C21 as claimed: decode_token returns the data of a token that
\* create_access_token produced under the server's secret, unaltered and not
\* expired by more than the leeway, with the user, jti, exp and refresh flag it
\* was created with; for every other token it returns None and never raises.
C21_DecodeToken ==
    \A s \in DOMAIN req :
        req[s].pc = "decoded" =>
            /\ req[s].result.kind # "raise"
            /\ IF GenuineInTime(req[s])
               THEN /\ req[s].result.kind = "TokenData"
                    /\ req[s].result.data = req[s].made.payload
               ELSE req[s].result.kind = "None"

----------------------------------------------------------------------------
(* Logout: TokenBearer.__call__, AccessTokenBearer, add_jti_to_blocklist and *)
(* token_in_blocklist.  token_blocklist holds the keys of the Redis client   *)
(* of app/core/redis.py: <<jti, the time the key expires>>.                  *)

JTI_EXPIRY == 3600                              \* seconds, app/core/redis.py
ACCESS_TOKEN_EXPIRE_MINUTES == 60 * 24 * 8      \* settings.ACCESS_TOKEN_EXPIRE_MINUTES
MaxSessionHours == 3                            \* hours of a run of SessionSpec that are followed

\* the default lifetime of a token, in seconds
TokenLifetime == ACCESS_TOKEN_EXPIRE_MINUTES * 60

\* add_jti_to_blocklist at time t: SET jti "" EX JTI_EXPIRY
add_jti_to_blocklist(blocklist, jti, t) ==
    {e \in blocklist : e[1] # jti} \cup {<<jti, t + JTI_EXPIRY * TicksPerSec>>}

\* token_in_blocklist at time t: GET jti is not None
token_in_blocklist(blocklist, jti, t) ==
    \E e \in blocklist : e[1] = jti /\ t < e[2]

\* AccessTokenBearer()(request) with the bearer token at time t: the status of
\* the HTTPException it raises (500 for an exception of decode_token), or 200
\* when it returns the token data
AccessTokenBearer(token, blocklist, t) ==
    LET d == decode_token(token, t)
    IN  IF d.kind = "raise" THEN 500
        ELSE IF d.kind = "None" THEN 403
        ELSE IF token_in_blocklist(blocklist, d.data["jti"], t) THEN 403
        ELSE IF d.data["refresh"] THEN 403
        ELSE 200

\* the client: the token it holds, whether it logged out with it, and the status
\* of its last request
NoSession == [pc |-> "none", token |-> Malformed, revoked |-> FALSE, status |-> 0]

SessionInit ==
    /\ clock = 0
    /\ ENVIRONMENT = "production"
    /\ started = TRUE
    /\ redis = [k \in Keys |-> NoHash]
    /\ epoch = [k \in Keys |-> NoEpoch]
    /\ ledger = [k \in Keys |-> NoLedger]
    /\ users = {}
    /\ token_blocklist = {}
    /\ streams = {}
    /\ req = [s \in {1} |-> NoSession]

\* login returns the access token (refresh = FALSE) and the refresh token of a
\* user, both with the default lifetime; the client keeps one of them
SessionLogin(s, username, refresh, jti) ==
    /\ req[s].pc = "none"
    /\ \A o \in DOMAIN req : req[o].pc # "none" => req[o].token.payload["jti"] # jti
    /\ \A e \in token_blocklist : e[1] # jti
    /\ req' = [req EXCEPT ![s] =
                 [NoSession EXCEPT !.pc = "held",
                                   !.token = create_access_token(username, TokenLifetime,
                                                                 refresh, jti, clock)]]
    /\ UNCHANGED <<clock, ENVIRONMENT, started, redis, epoch, users, token_blocklist, streams, ledger>>

\* a request to an endpoint that depends on AccessTokenBearer, with the token
SessionRequest(s) ==
    /\ req[s].pc = "held"
    /\ req' = [req EXCEPT ![s].pc = "answered",
                          ![s].status = AccessTokenBearer(req[s].token, token_blocklist, clock)]
    /\ UNCHANGED <<clock, ENVIRONMENT, started, redis, epoch, users, token_blocklist, streams, ledger>>

\* logout with the token: its dependencies, then add_jti_to_blocklist
logout(s) ==
    /\ req[s].pc = "held"
    /\ LET st == AccessTokenBearer(req[s].token, token_blocklist, clock)
       IN  IF st = 200
           THEN /\ token_blocklist' =
                       add_jti_to_blocklist(token_blocklist, req[s].token.payload["jti"], clock)
                /\ req' = [req EXCEPT ![s].pc = "loggedout", ![s].status = 200,
                                      ![s].revoked = TRUE]
           ELSE /\ token_blocklist' = token_blocklist
                /\ req' = [req EXCEPT ![s].pc = "answered", ![s].status = st]
    /\ UNCHANGED <<clock, ENVIRONMENT, started, redis, epoch, users, streams, ledger>>

\* the client has its answer and still has the token
SessionResume(s) ==
    /\ req[s].pc \in {"answered", "loggedout"}
    /\ req' = [req EXCEPT ![s].pc = "held", ![s].status = 0]
    /\ UNCHANGED <<clock, ENVIRONMENT, started, redis, epoch, users, token_blocklist, streams, ledger>>

\* time passes: half the life of a blocklist key, or the life of a token; the
\* run is followed for MaxSessionHours from its start and for MaxSessionHours
\* from the time a token of its start has lived its life
SessionAdvance(seconds) ==
    /\ seconds \in {JTI_EXPIRY \div 2, TokenLifetime}
    /\ (clock + seconds * TicksPerSec) % (TokenLifetime * TicksPerSec)
          <= MaxSessionHours * 3600 * TicksPerSec
    /\ clock + seconds * TicksPerSec < 2 * TokenLifetime * TicksPerSec
    /\ clock' = clock + seconds * TicksPerSec
    /\ UNCHANGED <<ENVIRONMENT, started, redis, req, epoch, users, token_blocklist, streams, ledger>>

SessionNext ==
    \/ \E s \in DOMAIN req, u \in Usernames, r \in BOOLEAN, j \in Jtis : SessionLogin(s, u, r, j)
    \/ \E s \in DOMAIN req : SessionRequest(s)
    \/ \E s \in DOMAIN req : logout(s)
    \/ \E s \in DOMAIN req : SessionResume(s)
    \/ \E d \in {JTI_EXPIRY \div 2, TokenLifetime} : SessionAdvance(d)

SessionSpec == SessionInit /\ [][SessionNext]_vars

\* C29 as claimed: logout revokes.  Once a logout with a token succeeded, every
\* later request with that token is answered 403, for as long as the token has
\* not expired.
C29_LogoutRevokes ==
    [][ \A s \in DOMAIN req :
          (/\ req[s].pc = "held" /\ req'[s].pc = "answered"
           /\ req[s].revoked
           /\ clock < req[s].token.payload["exp"] * TicksPerSec)
              => req'[s].status = 403 ]_vars

----------------------------------------------------------------------------
(* Streams: StreamCrud.start_stream, stop_stream and update_viewer_count.    *)
(* streams is the table, one row per stream id.  A call runs on its own      *)
(* session: it selects the row, and at commit the unit of work writes the    *)
(* attributes whose value differs from the one it loaded.  Each await of a   *)
(* call is a point where another call can run.                               *)

NStreamCalls == 2          \* calls of the stream operations in flight
MaxViewers == 1            \* viewer counts 0..MaxViewers

StreamIds == {"s1"}
AskedStreamIds == StreamIds \cup {"s9"}
StreamOwner == "alice"
NoTime == 0 - 1            \* None in started_at, ended_at

\* the columns a call loads and writes
StreamColumns == {"is_live", "started_at", "ended_at", "current_viewers", "peak_viewers"}

\* no row: the select found nothing
NoStream == [exists |-> FALSE, user_id |-> "none", is_live |-> FALSE,
             started_at |-> NoTime, ended_at |-> NoTime,
             current_viewers |-> 0, peak_viewers |-> 0, last |-> "none"]

\* the row create_stream makes (defaults of StreamBase); last is the last
\* operation that succeeded on the stream
NewStream(user_id) == [NoStream EXCEPT !.exists = TRUE, !.user_id = user_id]

\* select(Stream).where(Stream.sid == stream_id, Stream.user_id == user_id).first()
select_stream(table, stream_id, user_id) ==
    IF stream_id \in DOMAIN table /\ table[stream_id].exists
                                  /\ table[stream_id].user_id = user_id
    THEN table[stream_id]
    ELSE NoStream

\* session.commit(): UPDATE of the columns the call changed on the row it loaded
flush(row, loaded, changed) ==
    [f \in DOMAIN row |-> IF f \in StreamColumns /\ changed[f] # loaded[f]
                          THEN changed[f] ELSE row[f]]

\* the attributes start_stream sets on the row it loaded, at time t
start_stream(stream, t) ==
    [stream EXCEPT !.is_live = TRUE, !.started_at = t, !.ended_at = NoTime,
                   !.current_viewers = 0]

\* the attributes stop_stream sets on the row it loaded, at time t
stop_stream(stream, t) ==
    [stream EXCEPT !.is_live = FALSE, !.ended_at = t, !.current_viewers = 0]

\* what a call raises after its select, "none" if it goes on
stream_raises(op, stream) ==
    IF ~stream.exists THEN "ResourceNotFoundException"
    ELSE IF op = "start" /\ stream.is_live THEN "ValidationException"
    ELSE IF op = "stop" /\ ~stream.is_live THEN "ValidationException"
    ELSE "none"

NoStreamCall == [pc |-> "idle", op |-> "none", stream_id |-> "s1", user_id |-> "none",
           stream |-> NoStream, raised |-> "none"]

StreamInit ==
    /\ clock = 0
    /\ ENVIRONMENT = "production"
    /\ started = TRUE
    /\ redis = [k \in Keys |-> NoHash]
    /\ epoch = [k \in Keys |-> NoEpoch]
    /\ ledger = [k \in Keys |-> NoLedger]
    /\ users = {}
    /\ token_blocklist = {}
    /\ streams = [sid \in StreamIds |-> NewStream(StreamOwner)]
    /\ req = [c \in 1..NStreamCalls |-> NoStreamCall]

\* a call of start_stream or stop_stream up to the checks after its select
StreamSelect(c, op, stream_id, user_id) ==
    /\ req[c].pc = "idle"
    /\ LET stream == select_stream(streams, stream_id, user_id)
           raised == stream_raises(op, stream)
       IN  req' = [req EXCEPT ![c] =
                     [pc |-> IF raised = "none" THEN "selected" ELSE "raised",
                      op |-> op, stream_id |-> stream_id, user_id |-> user_id,
                      stream |-> stream, raised |-> raised]]
    /\ UNCHANGED <<clock, ENVIRONMENT, started, redis, epoch, users, token_blocklist, streams, ledger>>

\* the rest of the call: the assignments, commit, refresh and return
StreamCommit(c) ==
    /\ req[c].pc = "selected"
    /\ LET sid == req[c].stream_id
           changed == IF req[c].op = "start" THEN start_stream(req[c].stream, clock)
                                             ELSE stop_stream(req[c].stream, clock)
           row == [flush(streams[sid], req[c].stream, changed) EXCEPT !.last = req[c].op]
       IN  /\ streams' = [streams EXCEPT ![sid] = row]
           /\ req' = [req EXCEPT ![c].pc = "returned", ![c].stream = row]
    /\ UNCHANGED <<clock, ENVIRONMENT, started, redis, epoch, users, token_blocklist, ledger>>

\* update_viewer_count(session, stream_id, viewer_count)
update_viewer_count(stream_id, viewer_count) ==
    /\ stream_id \in DOMAIN streams
    /\ streams[stream_id].exists
    /\ streams' = [streams EXCEPT
                     ![stream_id].current_viewers = viewer_count,
                     ![stream_id].peak_viewers =
                         IF viewer_count > @ THEN viewer_count ELSE @]
    /\ streams' # streams
    /\ UNCHANGED <<clock, ENVIRONMENT, started, redis, req, epoch, users, token_blocklist, ledger>>

\* the caller has its stream or its exception
StreamClose(c) ==
    /\ req[c].pc \in {"returned", "raised"}
    /\ req' = [req EXCEPT ![c] = NoStreamCall]
    /\ UNCHANGED <<clock, ENVIRONMENT, started, redis, epoch, users, token_blocklist, streams, ledger>>

StreamTick ==
    /\ clock < MaxClock
    /\ clock' = clock + 1
    /\ UNCHANGED <<ENVIRONMENT, started, redis, req, epoch, users, token_blocklist, streams, ledger>>

StreamNext ==
    \/ \E c \in DOMAIN req, op \in {"start", "stop"}, sid \in AskedStreamIds, u \in Usernames :
          StreamSelect(c, op, sid, u)
    \/ \E c \in DOMAIN req : StreamCommit(c)
    \/ \E sid \in StreamIds, n \in 0..MaxViewers : update_viewer_count(sid, n)
    \/ \E c \in DOMAIN req : StreamClose(c)
    \/ StreamTick

StreamSpec == StreamInit /\ [][StreamNext]_vars

\* the step in which call c returns its stream
StreamReturns(c) == req[c].pc = "selected" /\ req'[c].pc = "returned"

\* C30 as claimed: the stream lifecycle.  A start_stream that succeeds is the
\* owner's, on a stream that is not live, and leaves is_live = true, ended_at =
\* None and current_viewers = 0; a stop_stream that succeeds is the owner's, on
\* a live stream, and leaves is_live = false and current_viewers = 0; a call
\* that raises leaves the stream unchanged; so the successful starts and stops
\* of one stream alternate.
C30_StreamLifecycle ==
    [][ \A c \in DOMAIN req :
          /\ (StreamReturns(c) /\ req[c].op = "start") =>
                LET sid == req[c].stream_id
                IN  /\ req[c].user_id = streams[sid].user_id
                    /\ ~streams[sid].is_live
                    /\ streams[sid].last # "start"
                    /\ streams'[sid].is_live
                    /\ streams'[sid].ended_at = NoTime
                    /\ streams'[sid].current_viewers = 0
          /\ (StreamReturns(c) /\ req[c].op = "stop") =>
                LET sid == req[c].stream_id
                IN  /\ req[c].user_id = streams[sid].user_id
                    /\ streams[sid].is_live
                    /\ streams[sid].last = "start"
                    /\ ~streams'[sid].is_live
                    /\ streams'[sid].current_viewers = 0
          /\ (req[c].pc = "idle" /\ req'[c].pc = "raised") => streams' = streams ]_vars

----------------------------------------------------------------------------
(* Progress *)

\* The event loop runs every step of a request that is ready to run.  Nothing
\* in the code bounds the wait for the store's reply: the answer of the store
\* (ScriptReturn, ScriptRaise) is the store's step, and is not the program's.
FairSpec ==
    /\ Spec
    /\ \A r \in Requests :
          /\ WF_vars(MiddlewareReject(r))
          /\ WF_vars(Wrapper(r))
          /\ WF_vars(activate_account(r))
          /\ WF_vars(WrapperReject(r))
          /\ WF_vars(\E o \in Outcomes : Endpoint(r, o))
          /\ WF_vars(Close(r))

\* C6 as claimed: every check eventually returns a decision.
C6_CheckReturns ==
    \A r \in Requests : (req[r].pc = "await") ~> (req[r].pc # "await")

====
